---- MODULE Spec2Model ----
(***************************************************************************)
(* FlipBook (src/components/devotional/FlipBook.tsx): the page-flip PDF    *)
(* viewer.  The model follows the component's React state, its two refs    *)
(* (pdfRef, cacheRef), the asynchronous document load of the [src] effect, *)
(* the renderIntoCache calls in flight, the onNext/onPrev invocations      *)
(* suspended at an await, the 700ms dwell timers, and the closure that the *)
(* keyboard effect registered.                                             *)
(*                                                                         *)
(* JavaScript is single threaded: every action below is one event-loop    *)
(* task together with the microtasks and the React re-render (and the      *)
(* effects of that render) that follow it before the next task.            *)
(*                                                                         *)
(* A rendered page image (the data URL of line 71) is modelled by what it  *)
(* shows: <<document, page number>>.  null is <<0, 0>>.  A document is     *)
(* named by the URL it was opened from.  The two awaits of renderIntoCache *)
(* (getPage, render) touch no shared state between them and are one step.  *)
(* Fire-and-forget renders of the same page of the same document that are  *)
(* in flight together are kept once: they write the same image.            *)
(***************************************************************************)
EXTENDS Integers, Sequences, FiniteSets, TLC

\* ---- bounds of the model ----
MaxPages == 4        \* the first document has 1..MaxPages pages
MaxNextPages == 2    \* a document that a changed src points to has 1..MaxNextPages pages
MaxSrcChanges == 1   \* how often the src prop changes
MaxFlips == 2        \* onNext/onPrev invocations and dwell timers in flight

\* the URLs the src prop takes: the first one and one more per change
Srcs == 1..(MaxSrcChanges + 1)
PageNums == 1..(IF MaxPages >= MaxNextPages THEN MaxPages ELSE MaxNextPages)

Null == <<0, 0>>
Img(d, n) == <<d, n>>

VARIABLES
    docPages,   \* environment: docPages[s] = page count of the document at URL s
    mounted,    \* the component is mounted
    src,        \* the src prop
    changes,    \* number of src changes so far (bounded)
    numPages, ready, error, page, flip, frontImg, backImg,   \* useState, lines 24-30
    pdfRef,     \* pdfRef.current: 0 (null) or the opened document's URL
    cacheRef,   \* cacheRef.current: page number -> image, Null when absent
    loads,      \* invocations of the load effect's async function still in flight
    renders,    \* fire-and-forget renderIntoCache calls in flight (lines 49, 87-89)
    pending,    \* onNext/onPrev invocations suspended at an await, in trigger order
    timers,     \* dwell timers set by setTimeout(.., 700), in firing order
    keyEnv      \* page/numPages of the render whose onKey is registered (line 134)

vars == <<docPages, mounted, src, changes, numPages, ready, error, page, flip,
          frontImg, backImg, pdfRef, cacheRef, loads, renders, pending, timers, keyEnv>>

\* ---- the account widget (src/components/nav/nav-user-dropdown.tsx) ----
\*
\* The widget has its own specification, WidgetSpec; the viewer's variables
\* stay as they are in it, and the widget's stay as they are in Spec.  An
\* applyUser run is one action per await it resumes from (getUser, the lookup by
\* user_id, the lookup by id).  The provider has one account; whether its user
\* is signed in changes with AuthStateChange.  Strings are named after the
\* field they come from; "" stands for every falsy value.  The handlers logout
\* and linkGoogle are operations that can be invoked at any time: the render
\* offers them only in the open menu of a logged-in widget (lines 215, 276-296),
\* so the model allows every invocation the page allows, and more.  A
\* navigation (window.location) ends the page: nothing happens after it.

MaxRuns == 2   \* applyUser runs started: the initial one and one per notification
MaxOps == 2    \* logout / linkGoogle invocations in flight together

VARIABLES
    hasSupabaseEnv, \* line 21: both NEXT_PUBLIC_SUPABASE_* values are configured
    account,        \* environment: the provider's user record of the one account
    signedIn,       \* environment: the provider currently has that user signed in
    boot,           \* the mount effect: "noenv", "importing", "ready" or "failed"
    subscribed,     \* the onAuthStateChange callback of line 88 is registered
    open, loggedIn, avatarUrl, displayName, email, hasGoogle,   \* useState, lines 11-16
    supabaseRef,    \* supabaseRef.current holds a client (line 19)
    runs,           \* applyUser runs suspended at an await
    started,        \* number of applyUser runs started so far (bounded)
    ops,            \* logout / linkGoogle invocations suspended at an await
    notice,         \* the notification last passed to show()
    location,       \* "here" until the page navigates, then the target path
    calls,          \* names of the provider / profile-store operations called so far
    uncaught,       \* handlers whose promise rejected with nothing catching it
    published       \* about the last write of displayName/avatarUrl: the run that
                    \* made it, what its lookups returned, the profile row it used

wvars == <<hasSupabaseEnv, account, signedIn, boot, subscribed, open, loggedIn, avatarUrl,
           displayName, email, hasGoogle, supabaseRef, runs, started, ops, notice,
           location, calls, uncaught, published>>

\* a || b on strings: "" (like null and undefined) is falsy
Or(a, b) == IF a # "" THEN a ELSE b

\* avatarUrl = null
NullUrl == "null"

\* the user records the provider may hold for the account: every metadata
\* field set, only the second-choice fields set, no metadata, not even an email
Accounts ==
    { [full_name |-> "meta.full_name", name |-> "meta.name",
       avatar_url |-> "meta.avatar_url", picture |-> "meta.picture",
       email |-> "user@mail", google |-> TRUE],
      [full_name |-> "", name |-> "meta.name",
       avatar_url |-> "", picture |-> "meta.picture",
       email |-> "user@mail", google |-> FALSE],
      [full_name |-> "", name |-> "", avatar_url |-> "", picture |-> "",
       email |-> "user@mail", google |-> FALSE],
      [full_name |-> "", name |-> "", avatar_url |-> "", picture |-> "",
       email |-> "", google |-> FALSE] }

\* maybeSingle() found no row: data is null
NoRow == [found |-> FALSE, name |-> "", full_name |-> "", image_url |-> "", avatar_url |-> ""]

\* the rows of Profile-Table a lookup may return: every field set, a name but
\* no photo, a row whose fields are all empty
Rows ==
    { [found |-> TRUE, name |-> "row.name", full_name |-> "row.full_name",
       image_url |-> "row.image_url", avatar_url |-> "row.avatar_url"],
      [found |-> TRUE, name |-> "", full_name |-> "row.full_name",
       image_url |-> "", avatar_url |-> ""],
      [found |-> TRUE, name |-> "", full_name |-> "", image_url |-> "", avatar_url |-> ""] }

RowResults == Rows \cup {NoRow}

\* error.message of a failed provider call; "" when the error carries none
ErrMsgs == {"provider message", ""}

NoNotice == [title |-> "", description |-> ""]

NothingPublished ==
    [id |-> 0, user |-> FALSE, failed |-> FALSE, q1 |-> "-", q2 |-> "-", row |-> NoRow]

\* the widget as it is while the viewer is being examined: not configured
WidgetParked ==
    /\ hasSupabaseEnv = FALSE
    /\ account = CHOOSE a \in Accounts : a.email = ""
    /\ signedIn = FALSE
    /\ boot = "noenv"
    /\ subscribed = FALSE
    /\ open = FALSE
    /\ loggedIn = FALSE
    /\ avatarUrl = NullUrl
    /\ displayName = "User"
    /\ email = ""
    /\ hasGoogle = FALSE
    /\ supabaseRef = FALSE
    /\ runs = {}
    /\ started = 0
    /\ ops = {}
    /\ notice = NoNotice
    /\ location = "here"
    /\ calls = {}
    /\ uncaught = {}
    /\ published = NothingPublished

\* ---- pure helpers of the component ----

\* pdf.numPages of the document handle held in pdfRef (0 when there is none)
PdfNumPages(pdf) == IF pdf = 0 THEN 0 ELSE docPages[pdf]

Min(a, b) == IF a <= b THEN a ELSE b
Max(a, b) == IF a >= b THEN a ELSE b

\* getSpreadPages with the bound on the right page of an even spread left out
getSpreadPagesUnbounded(p, np) ==
    IF p <= 1 THEN [left |-> 0, right |-> 1]
    ELSE IF p % 2 = 0 THEN [left |-> p, right |-> p + 1]
    ELSE [left |-> p - 1, right |-> p]

\* lines 76-81; null is 0
getSpreadPages(p, np) ==
    IF p <= 1 THEN [left |-> 0, right |-> 1]
    ELSE IF p % 2 = 0 THEN [left |-> p, right |-> IF p + 1 <= np THEN p + 1 ELSE 0]
    ELSE [left |-> p - 1, right |-> p]

\* line 92
canPrev(p) == p > 1

\* canNext with the last spread's bound off by one (page + 1 for page + 2)
canNextOffByOne(p, np) == IF p = 1 THEN np >= 2 ELSE p + 1 <= np

\* line 93
canNext(p, np) == IF p = 1 THEN np >= 2 ELSE p + 2 <= np

\* line 106, the updater passed to setPage
nextPage(p, np) == IF p = 1 THEN 2 ELSE Min(p + 2, np)

\* the backward updater stepping one page where line 121 steps a spread
prevPageByOne(p) == IF p = 2 THEN 1 ELSE Max(1, p - 1)

\* line 121, the updater passed to setPage
prevPage(p) == IF p = 2 THEN 1 ELSE Max(1, p - 2)

\* ---- renderIntoCache, lines 59-74 ----

\* Map.get on cacheRef.current: undefined (Null) for a key that was never set
CacheGet(cache, n) == IF n \in DOMAIN cache THEN cache[n] ELSE Null

\* lines 60-63: the call returns without rendering (null or the cached image)
Immediate(pdf, cache, n) ==
    \/ n < 1
    \/ pdf = 0
    \/ n > PdfNumPages(pdf)
    \/ CacheGet(cache, n) # Null

\* lines 60-63: what such a call returns
ImmediateResult(pdf, cache, n) ==
    IF n < 1 \/ pdf = 0 \/ n > PdfNumPages(pdf) THEN Null ELSE CacheGet(cache, n)

\* lines 64-73 for a fire-and-forget call: the render it leaves in flight
RenderCall(pdf, cache, n) ==
    IF Immediate(pdf, cache, n) THEN {} ELSE {[doc |-> pdf, n |-> n]}

\* lines 85-90: the prefetch effect's three calls
PrefetchCalls(pdf, cache, p, np) ==
    LET sp == getSpreadPages(p, np) IN
    RenderCall(pdf, cache, sp.left + 2) \cup RenderCall(pdf, cache, sp.right + 2)
        \cup RenderCall(pdf, cache, sp.left - 1)

\* the error message of line 51 (e.message or the fallback), "" for null
LoadError == "Failed to load PDF"

\* ---- effects that run after a render (lines 85-90 and 127-134) ----

\* the prefetch effect runs when page or numPages changed (deps of line 90)
EffectRenders(p2, n2, pdf2, cache2) ==
    IF <<p2, n2>> # <<page, numPages>> THEN PrefetchCalls(pdf2, cache2, p2, n2) ELSE {}

\* the keyboard effect re-registers onKey only when canNext or canPrev changed
\* (deps of line 134); otherwise the handler of an earlier render stays
EffectKeyEnv(p2, n2) ==
    IF <<canNext(p2, n2), canPrev(p2)>> # <<canNext(page, numPages), canPrev(page)>>
    THEN [page |-> p2, np |-> n2]
    ELSE keyEnv

\* ---- the state after construction and the first effects ----

Init ==
    /\ docPages \in [Srcs -> PageNums]
    /\ docPages[1] \in 1..MaxPages
    /\ \A s \in Srcs \ {1} : docPages[s] \in 1..MaxNextPages
    /\ mounted = TRUE
    /\ src = 1
    /\ changes = 0
    /\ numPages = 0
    /\ ready = FALSE
    /\ error = ""
    /\ page = 1
    /\ flip = "none"
    /\ frontImg = Null
    /\ backImg = Null
    /\ pdfRef = 0
    /\ cacheRef = [n \in PageNums |-> Null]
    /\ loads = {[src |-> 1, cancelled |-> FALSE, pc |-> "open"]}
    /\ renders = {}
    /\ pending = <<>>
    /\ timers = <<>>
    /\ keyEnv = [page |-> 1, np |-> 0]
    /\ WidgetParked

\* ---- the load effect, lines 35-57 ----

\* line 55: the cleanup of the effect sets the closure's cancelled flag
Cancel(l) == [l EXCEPT !.cancelled = TRUE]

\* the src prop changes: cleanup of the old effect, then the effect runs again
SrcChange(s) ==
    /\ mounted
    /\ s # src
    /\ changes < MaxSrcChanges
    /\ src' = s
    /\ changes' = changes + 1
    /\ loads' = {Cancel(l) : l \in loads} \cup {[src |-> s, cancelled |-> FALSE, pc |-> "open"]}
    /\ UNCHANGED <<wvars, docPages, mounted, numPages, ready, error, page, flip, frontImg, backImg,
                   pdfRef, cacheRef, renders, pending, timers, keyEnv>>

\* lines 54-56: the component unmounts: the cleanup runs, the key listener is
\* removed (line 133), and from then on React ignores every setState
Unmount ==
    /\ mounted
    /\ mounted' = FALSE
    /\ loads' = {Cancel(l) : l \in loads}
    /\ UNCHANGED <<wvars, docPages, src, changes, numPages, ready, error, page, flip, frontImg,
                   backImg, pdfRef, cacheRef, renders, pending, timers, keyEnv>>

\* lines 42-49: getDocument(src).promise resolves
LoadOpened(l) ==
    /\ l \in loads
    /\ l.pc = "open"
    /\ IF l.cancelled
       THEN /\ loads' = loads \ {l}
            /\ UNCHANGED <<pdfRef, numPages, ready, renders, keyEnv>>
       ELSE /\ pdfRef' = l.src
            /\ numPages' = docPages[l.src]
            /\ IF Immediate(l.src, cacheRef, 1)
               THEN /\ ready' = TRUE
                    /\ loads' = loads \ {l}
                    /\ renders' = renders \cup RenderCall(l.src, cacheRef, 2)
                                    \cup EffectRenders(page, docPages[l.src], l.src, cacheRef)
               ELSE /\ ready' = ready
                    /\ loads' = (loads \ {l}) \cup {[l EXCEPT !.pc = "render1"]}
                    /\ renders' = renders
                                    \cup EffectRenders(page, docPages[l.src], l.src, cacheRef)
            /\ keyEnv' = EffectKeyEnv(page, docPages[l.src])
    /\ UNCHANGED <<wvars, docPages, mounted, src, changes, error, page, flip, frontImg, backImg,
                   cacheRef, pending, timers>>

\* lines 50-52: getDocument rejects
LoadFail(l) ==
    /\ l \in loads
    /\ l.pc = "open"
    /\ loads' = loads \ {l}
    /\ error' = IF l.cancelled THEN error ELSE LoadError
    /\ UNCHANGED <<wvars, docPages, mounted, src, changes, numPages, ready, page, flip, frontImg,
                   backImg, pdfRef, cacheRef, renders, pending, timers, keyEnv>>

\* lines 47-49: the awaited renderIntoCache(1) of a load completes (lines 64-73)
LoadRendered(l) ==
    /\ l \in loads
    /\ l.pc = "render1"
    /\ loads' = loads \ {l}
    /\ cacheRef' = [cacheRef EXCEPT ![1] = Img(l.src, 1)]
    /\ ready' = IF l.cancelled THEN ready ELSE TRUE
    /\ renders' = renders \cup RenderCall(pdfRef, cacheRef', 2)
    /\ UNCHANGED <<wvars, docPages, mounted, src, changes, numPages, error, page, flip, frontImg,
                   backImg, pdfRef, pending, timers, keyEnv>>

\* lines 47, 50-52: the awaited renderIntoCache(1) of a load rejects
LoadRenderFail(l) ==
    /\ l \in loads
    /\ l.pc = "render1"
    /\ loads' = loads \ {l}
    /\ error' = IF l.cancelled THEN error ELSE LoadError
    /\ UNCHANGED <<wvars, docPages, mounted, src, changes, numPages, ready, page, flip, frontImg,
                   backImg, pdfRef, cacheRef, renders, pending, timers, keyEnv>>

\* lines 64-73: a fire-and-forget renderIntoCache call completes
RenderDone(c) ==
    /\ c \in renders
    /\ renders' = renders \ {c}
    /\ cacheRef' = [cacheRef EXCEPT ![c.n] = Img(c.doc, c.n)]
    /\ UNCHANGED <<wvars, docPages, mounted, src, changes, numPages, ready, error, page, flip,
                   frontImg, backImg, pdfRef, loads, pending, timers, keyEnv>>


\* lines 64, 70: getPage or render rejects in a fire-and-forget call; nothing
\* handles the rejection
RenderFail(c) ==
    /\ c \in renders
    /\ renders' = renders \ {c}
    /\ UNCHANGED <<wvars, docPages, mounted, src, changes, numPages, ready, error, page, flip,
                   frontImg, backImg, pdfRef, cacheRef, loads, pending, timers, keyEnv>>

\* ---- onNext / onPrev, lines 95-124 ----

\* line 98 (currentRight) and line 114 (prevPage): the page resolved first
FrontPage(t) ==
    IF t.dir = "forward"
    THEN LET r == getSpreadPages(t.page, t.np).right IN IF r = 0 THEN t.page ELSE r
    ELSE IF t.page = 2 THEN 1 ELSE Max(1, t.page - 2)

\* line 99 (nextLeft) and line 116 (page): the page resolved second
BackPage(t) ==
    IF t.dir = "forward" THEN (IF t.page = 1 THEN 2 ELSE t.page + 2) ELSE t.page

\* lines 101 and 116: front is known, renderIntoCache of the back page is called;
\* the invocation either runs on to line 102/117 (stage "done") or suspends
AfterFront(t, f, pdf, cache) ==
    LET b == BackPage(t) IN
    IF Immediate(pdf, cache, b)
    THEN [t EXCEPT !.stage = "done", !.front = f, !.back = ImmediateResult(pdf, cache, b)]
    ELSE [t EXCEPT !.stage = "back", !.front = f, !.doc = pdf, !.n = b]

\* lines 98-101 and 114-116: an invocation whose guard passed, run up to its first
\* suspension.  env is the closure (page, numPages of the render that made the
\* handler); at records the cursor at the time of the trigger.
Begin(dir, env, pdf, cache) ==
    LET t0 == [dir |-> dir, page |-> env.page, np |-> env.np, at |-> page,
               stage |-> "front", front |-> Null, back |-> Null, doc |-> 0, n |-> 0]
        fp == FrontPage(t0)
    IN  IF dir = "forward" /\ CacheGet(cache, fp) # Null
        THEN AfterFront(t0, CacheGet(cache, fp), pdf, cache)
        ELSE IF Immediate(pdf, cache, fp)
        THEN AfterFront(t0, ImmediateResult(pdf, cache, fp), pdf, cache)
        ELSE [t0 EXCEPT !.doc = pdf, !.n = fp]

\* lines 102-108 and 117-123: the images and the flip state are set and the dwell
\* timer is started (after an unmount the setState calls do nothing)
Commit(t) ==
    /\ timers' = Append(timers, [dir |-> t.dir, np |-> t.np, at |-> t.at])
    /\ IF mounted
       THEN /\ frontImg' = t.front
            /\ backImg' = t.back
            /\ flip' = t.dir
       ELSE UNCHANGED <<frontImg, backImg, flip>>

\* an invocation of onNext or onPrev from the closure env
Start(dir, env) ==
    LET t == Begin(dir, env, pdfRef, cacheRef) IN
    /\ Len(pending) + Len(timers) < MaxFlips
    /\ IF t.stage = "done"
       THEN Commit(t) /\ pending' = pending
       ELSE pending' = Append(pending, t) /\ UNCHANGED <<timers, frontImg, backImg, flip>>
    /\ UNCHANGED <<wvars, docPages, mounted, src, changes, numPages, ready, error, page, pdfRef,
                   cacheRef, loads, renders, keyEnv>>

\* lines 95-96
onNext(env) == canNext(env.page, env.np) /\ Start("forward", env)

\* lines 111-112
onPrev(env) == canPrev(env.page) /\ Start("backward", env)

\* lines 157-159: the Next button, of the current render
ClickNext ==
    /\ mounted
    /\ ~(~canNext(page, numPages) \/ flip # "none")
    /\ onNext([page |-> page, np |-> numPages])

\* lines 147-149: the Prev button, of the current render
ClickPrev ==
    /\ mounted
    /\ ~(~canPrev(page) \/ flip # "none")
    /\ onPrev([page |-> page, np |-> numPages])

\* lines 128-129: ArrowRight, handled by the registered onKey
KeyNext == mounted /\ onNext(keyEnv)

\* lines 128, 130: ArrowLeft, handled by the registered onKey
KeyPrev == mounted /\ onPrev(keyEnv)

RemoveAt(q, i) == [j \in 1..(Len(q) - 1) |-> IF j < i THEN q[j] ELSE q[j + 1]]

\* lines 64-73 inside onNext/onPrev: the awaited render completes and the
\* invocation continues
PendingDone(i) ==
    /\ i \in 1..Len(pending)
    /\ LET t == pending[i]
           url == Img(t.doc, t.n)
           cache2 == [cacheRef EXCEPT ![t.n] = url]
           t2 == IF t.stage = "front"
                 THEN AfterFront(t, url, pdfRef, cache2)
                 ELSE [t EXCEPT !.stage = "done", !.back = url]
       IN /\ cacheRef' = cache2
          /\ IF t2.stage = "done"
             THEN Commit(t2) /\ pending' = RemoveAt(pending, i)
             ELSE /\ pending' = [pending EXCEPT ![i] = t2]
                  /\ UNCHANGED <<timers, frontImg, backImg, flip>>
    /\ UNCHANGED <<wvars, docPages, mounted, src, changes, numPages, ready, error, page, pdfRef,
                   loads, renders, keyEnv>>

\* lines 64, 70 inside onNext/onPrev: the awaited render rejects and the
\* invocation ends there (nothing handles the rejection)
PendingFail(i) ==
    /\ i \in 1..Len(pending)
    /\ pending' = RemoveAt(pending, i)
    /\ UNCHANGED <<wvars, docPages, mounted, src, changes, numPages, ready, error, page, flip,
                   frontImg, backImg, pdfRef, cacheRef, loads, renders, timers, keyEnv>>

\* lines 105-108 and 120-123: the oldest dwell timer fires
TimerFire ==
    /\ timers # <<>>
    /\ timers' = Tail(timers)
    /\ IF mounted
       THEN LET t == Head(timers)
                p2 == IF t.dir = "forward" THEN nextPage(page, t.np) ELSE prevPage(page)
            IN /\ page' = p2
               /\ flip' = "none"
               /\ renders' = renders \cup EffectRenders(p2, numPages, pdfRef, cacheRef)
               /\ keyEnv' = EffectKeyEnv(p2, numPages)
       ELSE UNCHANGED <<page, flip, renders, keyEnv>>
    /\ UNCHANGED <<wvars, docPages, mounted, src, changes, numPages, ready, error, frontImg,
                   backImg, pdfRef, cacheRef, loads, pending>>

Next ==
    \/ \E s \in Srcs : SrcChange(s)
    \/ Unmount
    \/ \E l \in loads : LoadOpened(l)
    \/ \E l \in loads : LoadFail(l)
    \/ \E l \in loads : LoadRendered(l)
    \/ \E l \in loads : LoadRenderFail(l)
    \/ \E c \in renders : RenderDone(c)
    \/ \E c \in renders : RenderFail(c)
    \/ ClickNext
    \/ ClickPrev
    \/ KeyNext
    \/ KeyPrev
    \/ \E i \in 1..Len(pending) : PendingDone(i)
    \/ \E i \in 1..Len(pending) : PendingFail(i)
    \/ TimerFire

Spec == Init /\ [][Next]_vars

\* ---- the account widget: applyUser, lines 38-85 ----

\* line 50
MetaName(u) == Or(u.full_name, Or(u.name, ""))

\* line 51
MetaPhoto(u) == Or(u.avatar_url, Or(u.picture, ""))

\* the id lookup issued after every user_id lookup, whatever it returned
NeedsIdLookupAlways(row) == TRUE

\* line 64: if (!row)
NeedsIdLookup(row) == ~row.found

\* the name of lines 72-73 with the metadata value taking precedence over the row's
RowNameMetaFirst(row, name) ==
    IF row.found THEN Or(name, Or(row.name, Or(row.full_name, ""))) ELSE name

\* lines 72-73
RowName(row, name) ==
    IF row.found THEN Or(row.name, Or(row.full_name, Or(name, ""))) ELSE name

\* lines 72, 74
RowPhoto(row, photo) ==
    IF row.found THEN Or(row.image_url, Or(row.avatar_url, Or(photo, ""))) ELSE photo

\* line 77
ShownName(name, u) == Or(name, Or(u.email, "User"))

\* line 78
ShownAvatar(photo) == IF photo # "" THEN photo ELSE NullUrl

\* a new applyUser run, suspended at getUser (line 40)
NewRun(id) ==
    [id |-> id, pc |-> "getUser", name |-> "", photo |-> "", row |-> NoRow, q1 |-> "-"]

\* lines 77-78: the run r, its lookups over, writes the name and the photo
Publish(r, row, q1, q2) ==
    /\ displayName' = ShownName(RowName(row, r.name), account)
    /\ avatarUrl' = ShownAvatar(RowPhoto(row, r.photo))
    /\ runs' = runs \ {r}
    /\ published' = [id |-> r.id, user |-> TRUE, failed |-> published.failed,
                     q1 |-> q1, q2 |-> q2, row |-> row]

\* the state after construction and the mount effect's synchronous part
\* (lines 25-33): without configuration nothing is started
WInit ==
    /\ hasSupabaseEnv \in BOOLEAN
    /\ account \in Accounts
    /\ signedIn \in BOOLEAN
    /\ boot = IF hasSupabaseEnv THEN "importing" ELSE "noenv"
    /\ subscribed = FALSE
    /\ open = FALSE
    /\ loggedIn = FALSE
    /\ avatarUrl = NullUrl
    /\ displayName = "User"
    /\ email = ""
    /\ hasGoogle = FALSE
    /\ supabaseRef = FALSE
    /\ runs = {}
    /\ started = 0
    /\ ops = {}
    /\ notice = NoNotice
    /\ location = "here"
    /\ calls = {}
    /\ uncaught = {}
    /\ published = NothingPublished
    \* the viewer is not on the page
    /\ docPages = [s \in Srcs |-> 1]
    /\ mounted = FALSE
    /\ src = 1
    /\ changes = 0
    /\ numPages = 0
    /\ ready = FALSE
    /\ error = ""
    /\ page = 1
    /\ flip = "none"
    /\ frontImg = Null
    /\ backImg = Null
    /\ pdfRef = 0
    /\ cacheRef = [n \in PageNums |-> Null]
    /\ loads = {}
    /\ renders = {}
    /\ pending = <<>>
    /\ timers = <<>>
    /\ keyEnv = [page |-> 1, np |-> 0]

\* lines 35-37, 87-91: the import resolved; the client is created and kept, the
\* initial applyUser starts and the auth-state callback is registered
MountReady ==
    /\ location = "here"
    /\ boot = "importing"
    /\ boot' = "ready"
    /\ supabaseRef' = TRUE
    /\ runs' = runs \cup {NewRun(started + 1)}
    /\ started' = started + 1
    /\ subscribed' = TRUE
    /\ calls' = calls \cup {"createClient", "getUser", "onAuthStateChange"}
    /\ UNCHANGED <<hasSupabaseEnv, account, signedIn, open, loggedIn, avatarUrl, displayName,
                   email, hasGoogle, ops, notice, location, uncaught, published>>
    /\ UNCHANGED vars

\* lines 92-96: the import or the client's construction threw
MountFail ==
    /\ location = "here"
    /\ boot = "importing"
    /\ boot' = "failed"
    /\ loggedIn' = FALSE
    /\ avatarUrl' = NullUrl
    /\ UNCHANGED <<hasSupabaseEnv, account, signedIn, subscribed, open, displayName, email,
                   hasGoogle, supabaseRef, runs, started, ops, notice, location, calls,
                   uncaught, published>>
    /\ UNCHANGED vars

\* lines 88-90: the provider's session changes (or is refreshed) and the
\* registered callback starts another applyUser
AuthStateChange(s) ==
    /\ location = "here"
    /\ subscribed
    /\ started < MaxRuns
    /\ signedIn' = s
    /\ runs' = runs \cup {NewRun(started + 1)}
    /\ started' = started + 1
    /\ calls' = calls \cup {"getUser"}
    /\ UNCHANGED <<hasSupabaseEnv, account, boot, subscribed, open, loggedIn, avatarUrl,
                   displayName, email, hasGoogle, supabaseRef, ops, notice, location,
                   uncaught, published>>
    /\ UNCHANGED vars

\* lines 40-63: getUser resolved with the provider's current user
GetUserDone(r) ==
    /\ location = "here"
    /\ r.pc = "getUser"
    /\ loggedIn' = signedIn
    /\ IF ~signedIn
       THEN /\ avatarUrl' = NullUrl
            /\ displayName' = "User"
            /\ email' = ""
            /\ runs' = runs \ {r}
            /\ published' = [id |-> r.id, user |-> FALSE, failed |-> published.failed,
                             q1 |-> "-", q2 |-> "-", row |-> NoRow]
            /\ UNCHANGED <<hasGoogle, calls>>
       ELSE /\ email' = Or(account.email, "")
            /\ hasGoogle' = account.google
            /\ runs' = (runs \ {r}) \cup
                         {[r EXCEPT !.pc = "user_id", !.name = MetaName(account),
                                    !.photo = MetaPhoto(account)]}
            /\ calls' = calls \cup {"Profile-Table.user_id"}
            /\ UNCHANGED <<avatarUrl, displayName, published>>
    /\ UNCHANGED <<hasSupabaseEnv, account, signedIn, boot, subscribed, open, supabaseRef,
                   started, ops, notice, location, uncaught>>
    /\ UNCHANGED vars

\* lines 79-84: getUser threw
GetUserFail(r) ==
    /\ location = "here"
    /\ r.pc = "getUser"
    /\ loggedIn' = FALSE
    /\ avatarUrl' = NullUrl
    /\ displayName' = "User"
    /\ email' = ""
    /\ runs' = runs \ {r}
    /\ published' = [id |-> r.id, user |-> FALSE, failed |-> TRUE,
                     q1 |-> "-", q2 |-> "-", row |-> NoRow]
    /\ UNCHANGED <<hasSupabaseEnv, account, signedIn, boot, subscribed, open, hasGoogle,
                   supabaseRef, started, ops, notice, location, calls, uncaught>>
    /\ UNCHANGED vars

\* lines 59-78: the lookup by user_id resolved with row (NoRow: data is null)
ByUserIdDone(r, row) ==
    /\ location = "here"
    /\ r.pc = "user_id"
    /\ IF NeedsIdLookup(row)
       THEN /\ runs' = (runs \ {r}) \cup
                         {[r EXCEPT !.pc = "id", !.row = row,
                                    !.q1 = IF row.found THEN "row" ELSE "none"]}
            /\ calls' = calls \cup {"Profile-Table.id"}
            /\ UNCHANGED <<displayName, avatarUrl, published>>
       ELSE /\ Publish(r, row, IF row.found THEN "row" ELSE "none", "-")
            /\ UNCHANGED calls
    /\ UNCHANGED <<hasSupabaseEnv, account, signedIn, boot, subscribed, open, loggedIn, email,
                   hasGoogle, supabaseRef, started, ops, notice, location, uncaught>>
    /\ UNCHANGED vars

\* lines 76-78: the lookup by user_id threw; the catch swallows it
ByUserIdThrow(r) ==
    /\ location = "here"
    /\ r.pc = "user_id"
    /\ Publish(r, NoRow, "threw", "-")
    /\ UNCHANGED <<hasSupabaseEnv, account, signedIn, boot, subscribed, open, loggedIn, email,
                   hasGoogle, supabaseRef, started, ops, notice, location, calls, uncaught>>
    /\ UNCHANGED vars

\* lines 65-78: the lookup by id resolved; row = alt.data ?? null
ByIdDone(r, row) ==
    /\ location = "here"
    /\ r.pc = "id"
    /\ Publish(r, row, r.q1, IF row.found THEN "row" ELSE "none")
    /\ UNCHANGED <<hasSupabaseEnv, account, signedIn, boot, subscribed, open, loggedIn, email,
                   hasGoogle, supabaseRef, started, ops, notice, location, calls, uncaught>>
    /\ UNCHANGED vars

\* lines 76-78: the lookup by id threw; the catch skips lines 70-75
ByIdThrow(r) ==
    /\ location = "here"
    /\ r.pc = "id"
    /\ Publish(r, NoRow, r.q1, "threw")
    /\ UNCHANGED <<hasSupabaseEnv, account, signedIn, boot, subscribed, open, loggedIn, email,
                   hasGoogle, supabaseRef, started, ops, notice, location, calls, uncaught>>
    /\ UNCHANGED vars

\* ---- the account widget: logout, lines 105-155 ----

\* lines 114-119: the client kept in supabaseRef, created first when there is none
ClientCalls == IF supabaseRef THEN {} ELSE {"createClient"}

\* lines 106-113: nothing is configured
logoutNoEnv ==
    /\ notice' = [title |-> "Auth not configured",
                  description |-> "Contact admin to configure Supabase."]
    /\ loggedIn' = FALSE
    /\ open' = FALSE
    /\ location' = "/"
    /\ UNCHANGED <<hasSupabaseEnv, account, signedIn, boot, subscribed, avatarUrl, displayName,
                   email, hasGoogle, supabaseRef, runs, started, ops, calls, uncaught,
                   published>>

\* lines 114-123: the client is taken or created and getUser is called
logoutStart ==
    /\ Cardinality(ops) < MaxOps
    /\ supabaseRef' = TRUE
    /\ calls' = calls \cup ClientCalls \cup {"getUser"}
    /\ ops' = ops \cup {[op |-> "logout", pc |-> "who", who |-> "User"]}
    /\ UNCHANGED <<hasSupabaseEnv, account, signedIn, boot, subscribed, open, loggedIn,
                   avatarUrl, displayName, email, hasGoogle, runs, started, notice, location,
                   uncaught, published>>

\* logout without the test of line 106
logoutIgnoringEnv ==
    /\ location = "here"
    /\ logoutStart
    /\ UNCHANGED vars

\* lines 105-119: the handler is invoked.  (The render binds it to the sign-out
\* button while loggedIn, line 296.)
logout ==
    /\ location = "here"
    /\ IF ~hasSupabaseEnv THEN logoutNoEnv ELSE logoutStart
    /\ UNCHANGED vars

\* lines 126-145: the name the notification will carry, for a user the
\* provider returned; r1 and r2 are what the two lookups return
WhoOf(r1, r2, threw) ==
    LET meta == MetaName(account)
        row == IF r1.found THEN r1 ELSE r2
        name == IF meta # "" THEN meta
                ELSE IF threw THEN "" ELSE Or(row.name, Or(row.full_name, ""))
    IN  Or(name, Or(account.email, "User"))

\* the profile-store operations lines 127-143 call
WhoCalls(r1, threw) ==
    IF MetaName(account) # "" THEN {}
    ELSE IF threw \/ r1.found THEN {"Profile-Table.user_id"}
    ELSE {"Profile-Table.user_id", "Profile-Table.id"}

\* lines 121-148: getUser and the lookups are over (a throw is swallowed at
\* line 143 or 147) and signOut is called
LogoutWho(o) ==
    /\ location = "here"
    /\ o.op = "logout" /\ o.pc = "who"
    /\ \E r1 \in RowResults, threw \in BOOLEAN, gotUser \in {signedIn, FALSE} :
       \E r2 \in (IF r1.found \/ threw \/ ~gotUser THEN {NoRow} ELSE RowResults) :
          /\ ops' = (ops \ {o}) \cup
                      {[o EXCEPT !.pc = "signOut",
                                 !.who = IF gotUser THEN WhoOf(r1, r2, threw) ELSE "User"]}
          /\ calls' = calls \cup {"signOut"}
                            \cup (IF gotUser THEN WhoCalls(r1, threw) ELSE {})
    /\ UNCHANGED <<hasSupabaseEnv, account, signedIn, boot, subscribed, open, loggedIn,
                   avatarUrl, displayName, email, hasGoogle, supabaseRef, runs, started, notice,
                   location, uncaught, published>>
    /\ UNCHANGED vars

\* lines 148-154: signOut resolved, with or without an error in its result
\* (the result is not looked at)
LogoutSignedOut(o, failed) ==
    /\ location = "here"
    /\ o.op = "logout" /\ o.pc = "signOut"
    /\ signedIn' = IF failed THEN signedIn ELSE FALSE
    /\ loggedIn' = FALSE
    /\ open' = FALSE
    /\ notice' = [title |-> "Logged out", description |-> o.who]
    /\ location' = "/"
    /\ ops' = ops \ {o}
    /\ UNCHANGED <<hasSupabaseEnv, account, boot, subscribed, avatarUrl, displayName, email,
                   hasGoogle, supabaseRef, runs, started, calls, uncaught, published>>
    /\ UNCHANGED vars

\* line 148: signOut threw; nothing catches it
LogoutSignOutThrow(o) ==
    /\ location = "here"
    /\ o.op = "logout" /\ o.pc = "signOut"
    /\ ops' = ops \ {o}
    /\ uncaught' = uncaught \cup {"logout"}
    /\ UNCHANGED <<hasSupabaseEnv, account, signedIn, boot, subscribed, open, loggedIn,
                   avatarUrl, displayName, email, hasGoogle, supabaseRef, runs, started, notice,
                   location, calls, published>>
    /\ UNCHANGED vars

\* ---- the account widget: linkGoogle, lines 157-176 ----

\* lines 158-167: the client is taken or created and linkIdentity is called
linkGoogle ==
    /\ location = "here"
    /\ Cardinality(ops) < MaxOps
    /\ supabaseRef' = TRUE
    /\ calls' = calls \cup ClientCalls \cup {"linkIdentity"}
    /\ ops' = ops \cup {[op |-> "linkGoogle", pc |-> "linkIdentity", who |-> ""]}
    /\ UNCHANGED <<hasSupabaseEnv, account, signedIn, boot, subscribed, open, loggedIn,
                   avatarUrl, displayName, email, hasGoogle, runs, started, notice, location,
                   uncaught, published>>
    /\ UNCHANGED vars

\* lines 167-175: linkIdentity resolved without error ("ok"), resolved with an
\* error ("error") or threw ("throw"); msg is the error's message
LinkDone(o, outcome, msg) ==
    /\ location = "here"
    /\ o.op = "linkGoogle"
    /\ ops' = ops \ {o}
    /\ notice' =
         IF outcome = "ok"
         THEN [title |-> "Continue with Google",
               description |-> "Complete linking in the Google window."]
         ELSE IF outcome = "error"
         THEN [title |-> "Link failed", description |-> msg]
         ELSE [title |-> "Link failed", description |-> Or(msg, "Unexpected error")]
    /\ UNCHANGED <<hasSupabaseEnv, account, signedIn, boot, subscribed, open, loggedIn,
                   avatarUrl, displayName, email, hasGoogle, supabaseRef, runs, started,
                   location, calls, uncaught, published>>
    /\ UNCHANGED vars

\* ---- the account widget: the menu, lines 20, 101-103, 178-181, 221 ----

\* lines 178-181 (login, lines 101-103, when not logged in)
onTriggerClick ==
    /\ location = "here"
    /\ IF ~loggedIn
       THEN location' = "/sign-in" /\ UNCHANGED open
       ELSE open' = ~open /\ UNCHANGED location
    /\ UNCHANGED <<hasSupabaseEnv, account, signedIn, boot, subscribed, loggedIn, avatarUrl,
                   displayName, email, hasGoogle, supabaseRef, runs, started, ops, notice,
                   calls, uncaught, published>>
    /\ UNCHANGED vars

\* lines 20, 221: a click outside the menu or on its close button
CloseMenu ==
    /\ location = "here"
    /\ open
    /\ open' = FALSE
    /\ UNCHANGED <<hasSupabaseEnv, account, signedIn, boot, subscribed, loggedIn, avatarUrl,
                   displayName, email, hasGoogle, supabaseRef, runs, started, ops, notice,
                   location, calls, uncaught, published>>
    /\ UNCHANGED vars

WNext ==
    \/ MountReady
    \/ MountFail
    \/ \E s \in BOOLEAN : AuthStateChange(s)
    \/ \E r \in runs : GetUserDone(r)
    \/ \E r \in runs : GetUserFail(r)
    \/ \E r \in runs : \E row \in RowResults : ByUserIdDone(r, row)
    \/ \E r \in runs : ByUserIdThrow(r)
    \/ \E r \in runs : \E row \in RowResults : ByIdDone(r, row)
    \/ \E r \in runs : ByIdThrow(r)
    \/ logout
    \/ \E o \in ops : LogoutWho(o)
    \/ \E o \in ops : \E failed \in BOOLEAN : LogoutSignedOut(o, failed)
    \/ \E o \in ops : LogoutSignOutThrow(o)
    \/ linkGoogle
    \/ \E o \in ops : \E outcome \in {"ok", "error", "throw"} : \E msg \in ErrMsgs :
           LinkDone(o, outcome, msg)
    \/ onTriggerClick
    \/ CloseMenu

WidgetSpec == WInit /\ [][WNext]_wvars

\* ---- claims ----

\* C1: a next or prev trigger (button click or arrow key) that arrives while
\* the flip state is not idle is a no-op: cursor, flip state and front/back
\* images stay as they are and no further cursor advance is scheduled.
C1_TriggerWhileFlippingIsNoOp ==
    [][(flip # "none" /\ (ClickNext \/ ClickPrev \/ KeyNext \/ KeyPrev))
          => UNCHANGED <<page, flip, frontImg, backImg, pending, timers>>]_vars

\* C2: flips are serialized: from the acceptance of a trigger until its dwell
\* timer has fired no second flip is in flight; at most one dwell timer is pending.
C2_FlipsSerialized == Len(pending) + Len(timers) <= 1

\* C3: the cursor is an integer >= 1 that is <= the page count of the opened
\* document, or the default 1 while the page count is unknown (0).
C3_CursorValid ==
    /\ page >= 1
    /\ IF numPages = 0 THEN page = 1 ELSE page <= numPages

\* C4: once its effect has been cleaned up (cancelled), a document-open operation
\* performs no state update when it resumes: not the document handle, the page
\* count, the ready flag or the error message, and no write to the page cache.
C4_StaleLoadUpdatesNothing ==
    [][\A l \in loads : (l.cancelled /\ l \notin loads')
          => UNCHANGED <<pdfRef, numPages, ready, error, cacheRef>>]_vars

\* C5: front/back images are held if and only if a flip is in progress: while
\* idle no front or back image is held.
C5_FlipDataIffFlipping == (flip = "none") <=> (frontImg = Null /\ backImg = Null)

\* the page a forward flip at cursor c turns: the right page of the spread for c
FlippingPageForward(c) == getSpreadPages(c, numPages).right

\* the page a backward flip at cursor c turns: the left page of the spread for c
FlippingPageBackward(c) == getSpreadPages(c, numPages).left

\* the page a forward flip at cursor c reveals: the left page of the target spread
RevealedPageForward(c) ==
    getSpreadPages(IF c = 1 THEN 2 ELSE Min(c + 2, numPages), numPages).left

\* the page a backward flip at cursor c reveals: the right page of the target spread
RevealedPageBackward(c) ==
    getSpreadPages(IF c = 2 THEN 1 ELSE Max(1, c - 2), numPages).right

\* C6: whenever a flipping state is entered at cursor c, the front image is the
\* cached image of the page visible at c on the side that flips and the back
\* image is the cached image of the page the flip reveals in the target spread.
C6_FlipImagesOfCurrentCursor ==
    [][(mounted /\ Len(timers') = Len(timers) + 1)
          => /\ flip' = "forward" =>
                  /\ frontImg' = CacheGet(cacheRef', FlippingPageForward(page))
                  /\ backImg' = CacheGet(cacheRef', RevealedPageForward(page))
             /\ flip' = "backward" =>
                  /\ frontImg' = CacheGet(cacheRef', FlippingPageBackward(page))
                  /\ backImg' = CacheGet(cacheRef', RevealedPageBackward(page))]_vars

\* C7: for every cursor in 1..totalPages, getSpreadPages returns (none, 1) at
\* cursor 1, (cursor, cursor+1) at an even cursor below totalPages, (cursor, none)
\* at an even cursor equal to totalPages, (cursor-1, cursor) at an odd cursor > 1,
\* and every defined member lies in 1..totalPages.
C7_SpreadRules ==
    \A c \in 1..numPages :
        LET sp == getSpreadPages(c, numPages) IN
        /\ c = 1 => sp = [left |-> 0, right |-> 1]
        /\ (c % 2 = 0 /\ c + 1 <= numPages) => sp = [left |-> c, right |-> c + 1]
        /\ (c % 2 = 0 /\ c = numPages) => sp = [left |-> c, right |-> 0]
        /\ (c % 2 = 1 /\ c > 1) => sp = [left |-> c - 1, right |-> c]
        /\ sp.left # 0 => sp.left \in 1..numPages
        /\ sp.right # 0 => sp.right \in 1..numPages

\* C7 witness: an opened document shown at its trailing even page, whose spread
\* has no right page
C7_Witness ==
    /\ numPages >= 2
    /\ page = numPages
    /\ page % 2 = 0
    /\ getSpreadPages(page, numPages) = [left |-> page, right |-> 0]

\* C8: a forward flip triggered at cursor c leaves the cursor, when its dwell
\* timer fires, at 2 if c = 1 and otherwise at min(c+2, totalPages); a backward
\* flip leaves it at 1 if c = 2 and otherwise at max(1, c-2); the cursor changes
\* at no other time.
C8_CursorStepPerTrigger ==
    [][/\ (mounted /\ timers # <<>> /\ timers' = Tail(timers)) =>
            LET c == Head(timers).at IN
            page' = IF Head(timers).dir = "forward"
                    THEN (IF c = 1 THEN 2 ELSE Min(c + 2, numPages))
                    ELSE (IF c = 2 THEN 1 ELSE Max(1, c - 2))
       /\ page' # page => (timers # <<>> /\ timers' = Tail(timers))]_vars

\* a flip in direction dir was started by this step: one more invocation or
\* timer is in flight, and the newest one has that direction
FlipStarted(dir) ==
    /\ Len(pending') + Len(timers') = Len(pending) + Len(timers) + 1
    /\ \/ Len(pending') = Len(pending) + 1 /\ pending'[Len(pending')].dir = dir
       \/ Len(timers') = Len(timers) + 1 /\ timers'[Len(timers')].dir = dir

\* C9: in the idle state a next trigger starts a forward flip if and only if
\* (cursor = 1 and totalPages >= 2) or cursor + 2 <= totalPages, a prev trigger
\* starts a backward flip if and only if cursor > 1, and a trigger whose guard
\* fails changes nothing: the guard evaluated by the button's handler and by the
\* registered key handler is exactly that condition on the current cursor, and
\* every step a trigger takes in the idle state satisfies it and starts the flip.
C9_TriggerGuards ==
    /\ [](/\ ((page = 1 /\ numPages >= 2) \/ page + 2 <= numPages)
                 <=> canNext(page, numPages)
          /\ ((page = 1 /\ numPages >= 2) \/ page + 2 <= numPages)
                 <=> canNext(keyEnv.page, keyEnv.np)
          /\ page > 1 <=> canPrev(page)
          /\ page > 1 <=> canPrev(keyEnv.page))
    /\ [][/\ (flip = "none" /\ FlipStarted("forward")) =>
               /\ (page = 1 /\ numPages >= 2) \/ page + 2 <= numPages
               /\ ClickNext \/ KeyNext
          /\ (flip = "none" /\ FlipStarted("backward")) =>
               /\ page > 1
               /\ ClickPrev \/ KeyPrev]_vars

\* C9 witness: at cursor 2 of a document of at least 4 pages, a forward flip
\* that a trigger started there (the cursor + 2 <= totalPages branch) is in flight
C9_Witness ==
    /\ numPages >= 4
    /\ page = 2
    /\ \E i \in 1..Len(timers) : timers[i].at = 2 /\ timers[i].dir = "forward"

\* C10: page cache memoization: a renderIntoCache call for a cached page starts
\* no render (it returns the cached image), and a cached entry is never replaced
\* or removed, so two calls in sequence return the identical image.
C10_CacheMemoized ==
    [][/\ \A n \in PageNums : cacheRef[n] # Null => cacheRef'[n] = cacheRef[n]
       /\ \A c \in renders' \ renders : cacheRef[c.n] = Null
       /\ \A i \in 1..Len(pending') :
              (i > Len(pending) \/ pending'[i] # pending[i])
                  => cacheRef'[pending'[i].n] = Null]_vars

\* the renderIntoCache calls suspended between line 64 and line 72, each with
\* the document it captured at line 61 and its page number
InFlightCalls ==
    renders
      \cup {[doc |-> l.src, n |-> 1] : l \in {x \in loads : x.pc = "render1"}}
      \cup {[doc |-> pending[i].doc, n |-> pending[i].n] : i \in 1..Len(pending)}

\* C11: renderIntoCache calls for the same page that are in flight together all
\* return the same image, and none of them replaces an image already stored for
\* that page by a different one, so the cache converges to one consistent entry.
C11_ConcurrentRendersAgree ==
    /\ \A c1 \in InFlightCalls : \A c2 \in InFlightCalls :
           c1.n = c2.n => Img(c1.doc, c1.n) = Img(c2.doc, c2.n)
    /\ \A c \in InFlightCalls :
           cacheRef[c.n] # Null => cacheRef[c.n] = Img(c.doc, c.n)

\* C16: every image the cache holds under page number n was rendered from page
\* n of the document that is currently open, and n is at most that document's
\* page count; no image of an earlier document survives a src change.
C16_CacheOfCurrentDocument ==
    \A n \in PageNums :
        cacheRef[n] # Null =>
            /\ pdfRef # 0
            /\ cacheRef[n] = Img(pdfRef, n)
            /\ n <= PdfNumPages(pdfRef)

\* the cursors visited from cursor c by invoking next (lines 93, 106) until its
\* guard fails, in order of visit
RECURSIVE VisitedCursors(_, _)
VisitedCursors(c, np) ==
    IF canNext(c, np) THEN <<c>> \o VisitedCursors(nextPage(c, np), np) ELSE <<c>>

\* the page numbers a cursor's spread shows (lines 76-81, 136-139)
SpreadPageSet(c, np) ==
    {getSpreadPages(c, np).left, getSpreadPages(c, np).right} \ {0}

\* C18: for the opened document's page count, walking from cursor 1 with next
\* until its guard fails shows every page 1..totalPages in the spread of exactly
\* one visited cursor, and prev at every visited cursor but the first is allowed
\* and returns to the cursor visited just before it.
C18_WalkCoversEveryPageOnce ==
    numPages >= 1 =>
        LET v == VisitedCursors(1, numPages) IN
            /\ \A k \in 1..numPages :
                   Cardinality({i \in 1..Len(v) : k \in SpreadPageSet(v[i], numPages)}) = 1
            /\ \A i \in 2..Len(v) : canPrev(v[i]) /\ prevPage(v[i]) = v[i - 1]

\* C18 witness: the walk has been made to its last cursor (beyond cursor 2) and
\* a backward flip triggered there is in flight
C18_Witness ==
    /\ numPages >= 4
    /\ page = VisitedCursors(1, numPages)[Len(VisitedCursors(1, numPages))]
    /\ page > 2
    /\ \E i \in 1..Len(timers) : timers[i].at = page /\ timers[i].dir = "backward"

\* C12: in applyUser the profile record is looked up by user_id first; the
\* lookup by id is in flight or has been made only when the user_id lookup
\* returned no row, and when the user_id lookup returned no row the id lookup
\* has been made before the name and photo are written.
C12_IdLookupOnlyAfterNoRow ==
    /\ \A r \in runs : r.pc = "id" => (r.q1 = "none" /\ ~r.row.found)
    /\ published.q1 = "row" => published.q2 = "-"
    /\ published.q1 = "none" => published.q2 # "-"

\* C12 witness: a run found no row by user_id, then none by id, and fell back
\* to the (non-empty) metadata name
C12_Witness ==
    /\ published.q1 = "none"
    /\ published.q2 = "none"
    /\ MetaName(account) # ""
    /\ displayName = MetaName(account)

\* the profile record's name and photo as the last writing run obtained them
ProfileName == Or(published.row.name, published.row.full_name)
ProfilePhoto == Or(published.row.image_url, published.row.avatar_url)

\* C13: the name and avatar written for a signed-in user follow profile record >
\* provider metadata > default: a non-empty profile value is the one shown, the
\* metadata value is shown only when the profile value is empty or absent, and
\* 'User' / no avatar only when both are.
C13_NamePrecedence ==
    published.user =>
        /\ ProfileName # "" => displayName = ProfileName
        /\ (ProfileName = "" /\ MetaName(account) # "") => displayName = MetaName(account)
        /\ displayName = "User" => (ProfileName = "" /\ MetaName(account) = "")
        /\ ProfilePhoto # "" => avatarUrl = ProfilePhoto
        /\ (ProfilePhoto = "" /\ MetaPhoto(account) # "") => avatarUrl = MetaPhoto(account)
        /\ avatarUrl = NullUrl => (ProfilePhoto = "" /\ MetaPhoto(account) = "")

\* C13 witness: the profile row has a name but no photo while the metadata has
\* both: the row's name and the metadata's photo are shown
C13_Witness ==
    /\ published.user
    /\ ProfileName # "" /\ ProfilePhoto = ""
    /\ MetaName(account) # "" /\ MetaPhoto(account) # ""
    /\ displayName = ProfileName
    /\ avatarUrl = MetaPhoto(account)

\* C14: with the configuration missing the mount effect starts nothing (no
\* applyUser run, no subscription; the widget shows logged out), and an
\* invocation of sign-out leaves the widget logged out with the menu closed and
\* the page navigated to '/', creating no client and calling neither the
\* provider nor the profile store.
C14_NoEnvSignOut ==
    /\ [](~hasSupabaseEnv =>
            /\ boot = "noenv" /\ runs = {} /\ ~subscribed
            /\ ~loggedIn /\ avatarUrl = NullUrl)
    /\ [][(~hasSupabaseEnv /\ logout) =>
            /\ ~loggedIn' /\ ~open' /\ location' = "/"
            /\ calls' = calls /\ supabaseRef' = supabaseRef /\ ops' = ops]_wvars

\* C14 witness: sign-out was invoked without configuration
C14_Witness ==
    /\ ~hasSupabaseEnv
    /\ notice.title = "Auth not configured"
    /\ location = "/"
    /\ ~loggedIn /\ ~open
    /\ calls = {}

\* C15: no failure of an external call escapes its handler uncaught, and the
\* 'Logged out' notification is shown only when the provider no longer has the
\* user signed in (a failed sign-out is not presented as a successful one).
C15_FailuresSurfaced ==
    /\ uncaught = {}
    /\ notice.title = "Logged out" => ~signedIn

\* C17: once every applyUser run has completed, the widget shows the provider's
\* current user: logged out with avatarUrl null, displayName 'User' and an empty
\* email when nobody is signed in, logged in with the user's email otherwise
\* (runs in which getUser failed aside).
C17_WidgetMatchesProvider ==
    (subscribed /\ runs = {} /\ location = "here" /\ ~published.failed) =>
        IF signedIn
        THEN loggedIn /\ email = account.email
        ELSE ~loggedIn /\ avatarUrl = NullUrl /\ displayName = "User" /\ email = ""

====
